---------------------------- MODULE Spec2Model ----------------------------
(***************************************************************************)
(* CorsaScore (src/app.py): the SCORE 2.0 pipeline.                        *)
(*                                                                         *)
(*   process_running_file            uploaded device log  -> result | None *)
(*   process_strava_activity         activity streams     -> result | None *)
(*   process_running_file_from_data  device-log record    -> result | None *)
(*   the batch loop (lines 410-434)  collects the results                  *)
(*                                                                         *)
(* Numbers are exact rationals [n, d] in lowest terms with d > 0; the      *)
(* non-finite doubles the code can produce are d = 0: n = 1 is +inf,       *)
(* n = -1 is -inf, n = 0 is nan (numpy's outcomes of x/0 and of the mean   *)
(* of an empty list).  Python's None is the empty tuple, a returned dict   *)
(* r is <<r>>.                                                             *)
(***************************************************************************)
EXTENDS Integers, Sequences, FiniteSets, TLC

VARIABLES
    params,      \* weight, hr_rest, hr_max, base_offset (sidebar, lines 30-33)
    clock,       \* the wall clock pd.Timestamp.now() reads
    inputs,      \* the inputs of this run: device-log records, uploaded files or activities
    idx,         \* number of inputs the loop has taken so far
    results,     \* the list `results` of the batch loop (line 411)
    returned,    \* the return value of every processing call, in call order
    frames,      \* the local variables of every processing call at its return
    calledAt,    \* the wall-clock time of every processing call
    reports      \* every st.error / st.warning emitted, in order, with its input

vars == <<params, clock, inputs, idx, results, returned, frames, calledAt, reports>>

----------------------------------------------------------------------------
(* Arithmetic on doubles, modelled exactly.                                *)

Abs(x) == IF x < 0 THEN -x ELSE x

Sign(x) == IF x < 0 THEN -1 ELSE IF x > 0 THEN 1 ELSE 0

RECURSIVE GCD(_, _)
GCD(a, b) == IF b = 0 THEN a ELSE GCD(b, a % b)

\* the rational n/d (d # 0) in lowest terms, d > 0
Rat(n, d) ==
    LET g == GCD(Abs(n), Abs(d))
        s == IF d < 0 THEN -1 ELSE 1
    IN  [n |-> (s * n) \div g, d |-> (s * d) \div g]

Num(i) == [n |-> i, d |-> 1]

NaN  == [n |-> 0, d |-> 0]
Inf(s) == [n |-> s, d |-> 0]

IsNaN(x) == x.d = 0 /\ x.n = 0
IsInf(x) == x.d = 0 /\ x.n # 0
IsFinite(x) == x.d > 0

\* x + y
RAdd(x, y) ==
    IF IsNaN(x) \/ IsNaN(y) THEN NaN
    ELSE IF IsInf(x) /\ IsInf(y) THEN (IF x.n = y.n THEN x ELSE NaN)
    ELSE IF IsInf(x) THEN x
    ELSE IF IsInf(y) THEN y
    ELSE Rat(x.n * y.d + y.n * x.d, x.d * y.d)

RNeg(x) == [n |-> -x.n, d |-> x.d]

\* x - y
RSub(x, y) == RAdd(x, RNeg(y))

\* x * y
RMul(x, y) ==
    IF IsNaN(x) \/ IsNaN(y) THEN NaN
    ELSE IF IsInf(x) \/ IsInf(y)
         THEN (IF x.n = 0 \/ y.n = 0 THEN NaN ELSE Inf(Sign(x.n) * Sign(y.n)))
    ELSE Rat(x.n * y.n, x.d * y.d)

\* x / y with a numpy double on the left: x/0 is +-inf or nan, never a fault
RDiv(x, y) ==
    IF IsNaN(x) \/ IsNaN(y) THEN NaN
    ELSE IF IsInf(x) THEN (IF IsInf(y) THEN NaN
                           ELSE Inf(x.n * (IF y.n < 0 THEN -1 ELSE 1)))
    ELSE IF IsInf(y) THEN Num(0)
    ELSE IF y.n = 0 THEN (IF x.n = 0 THEN NaN ELSE Inf(Sign(x.n)))
    ELSE Rat(x.n * y.d, x.d * y.n)

\* x < y ; every comparison with nan is False
RLt(x, y) ==
    IF IsNaN(x) \/ IsNaN(y) THEN FALSE
    ELSE IF IsInf(x) THEN x.n < 0 /\ ~(IsInf(y) /\ y.n < 0)
    ELSE IF IsInf(y) THEN y.n > 0
    ELSE x.n * y.d < y.n * x.d

\* x > 0
RPos(x) == RLt(Num(0), x)

RECURSIVE Pow10(_)
Pow10(k) == IF k = 0 THEN 1 ELSE 10 * Pow10(k - 1)

\* <<floor(v + r/d, scaled by 10^k), remainder>> by long division, one
\* decimal digit at a time
RECURSIVE Scaled(_, _, _, _)
Scaled(v, r, d, k) ==
    IF k = 0 THEN <<v, r>>
    ELSE Scaled(10 * v + (10 * r) \div d, (10 * r) % d, d, k - 1)

\* round(x, k): to k decimals, ties to the even digit; nan and inf pass through
Round(x, k) ==
    IF ~IsFinite(x) THEN x
    ELSE LET qr == Scaled(x.n \div x.d, x.n % x.d, x.d, k)
             q == qr[1]
             r == qr[2]
             up == 2 * r > x.d \/ (2 * r = x.d /\ q % 2 = 1)
         IN  Rat(IF up THEN q + 1 ELSE q, Pow10(k))

\* the largest k with k*k <= i
ISqrt(i) == CHOOSE k \in 0..i : k * k <= i /\ (k + 1) * (k + 1) > i

\* np.sqrt(x) for x > 0; exact on the squares of rationals, which is what
\* the durations of this model produce (Durations)
RSqrt(x) == [n |-> ISqrt(x.n), d |-> ISqrt(x.d)]

\* int(x) for a finite x: truncation toward zero
Trunc(x) == IF x.n >= 0 THEN x.n \div x.d ELSE -((-x.n) \div x.d)

RECURSIVE SumSeq(_)
SumSeq(s) == IF s = <<>> THEN 0 ELSE Head(s) + SumSeq(Tail(s))

\* np.mean(s): nan for the empty list
Mean(s) == IF s = <<>> THEN NaN ELSE Rat(SumSeq(s), Len(s))

RECURSIVE SelectPos(_)
SelectPos(s) ==
    IF s = <<>> THEN <<>>
    ELSE IF Head(s) > 0 THEN <<Head(s)>> \o SelectPos(Tail(s))
    ELSE SelectPos(Tail(s))

----------------------------------------------------------------------------
(* Bounds of the model and the values the inputs are drawn from.           *)

MaxSamples == 2      \* longest 'Samples' list of a device log
MaxRR == 3           \* longest raw 'R-R'.'Data' list of a device log

SeqsUpTo(S, n) == UNION {[1..k -> S] : k \in 0..n}

\* one entry of 'Samples': it carries a 'Power' key or not
SampleVals ==
    {[hasPower |-> FALSE, Power |-> 0],
     [hasPower |-> TRUE, Power |-> 0],
     [hasPower |-> TRUE, Power |-> 200]}

\* raw R-R values in ms; 0 is the sensor artefact the filter drops
RRVals == {0, 400, 600}

\* 'Duration' in seconds; 3600 * t is the square of a rational for each
Durations == {0, 400, 3600}

\* the 'Header' of a device log; 'DateTime' and 'Duration' may be missing
\* (header.get supplies the default); hasDateTime ranges over D
HeadersWith(D) ==
    {h \in [hasDateTime : D, DateTime : {5},
            Ascent : {50}, Distance : {0, 1000},
            durKind : {"absent", "number"}, Duration : Durations] :
        h.durKind = "absent" => h.Duration = 0}

\* an hour's run over 1000 m with 50 m of ascent, started at time 5
UsualHeader ==
    [hasDateTime |-> TRUE, DateTime |-> 5, Ascent |-> 50, Distance |-> 1000,
     durKind |-> "number", Duration |-> 3600]

\* the well-structured device-log records with a header of H
LogsWith(H) ==
    [hasDeviceLog : {TRUE}, hasSamples : {TRUE}, hasHeader : {TRUE},
     Header : H,
     Samples : SeqsUpTo(SampleVals, MaxSamples),
     RR : SeqsUpTo(RRVals, MaxRR)]

\* records that lack 'DeviceLog', 'Samples' or 'Header', or whose
\* 'Duration' is text
BrokenLogs ==
    {[hasDeviceLog |-> b[1], hasSamples |-> b[2], hasHeader |-> b[3],
      Header |-> [UsualHeader EXCEPT !.durKind = b[4]],
      Samples |-> <<[hasPower |-> TRUE, Power |-> 200]>>, RR |-> <<400>>] :
        b \in {<<FALSE, FALSE, FALSE, "number">>, <<TRUE, FALSE, FALSE, "number">>,
               <<TRUE, TRUE, FALSE, "number">>, <<TRUE, TRUE, TRUE, "text">>}}

DeviceLogs == LogsWith(HeadersWith({TRUE})) \cup BrokenLogs

\* the sidebar's usual values
UsualParams == [weight |-> 70, hr_rest |-> 60, hr_max |-> 180, base_offset |-> 2]

\* the sidebar's athlete parameters: usual values, a zero weight, and a
\* heart-rate range that is empty (hr_max = hr_rest)
ParamSet ==
    {UsualParams,
     [UsualParams EXCEPT !.weight = 0],
     [UsualParams EXCEPT !.hr_max = 60]}

----------------------------------------------------------------------------
(* The scoring body, lines 93-182 and, word for word, lines 278-367.       *)

None == <<>>

\* [s['Power'] for s in samples if 'Power' in s]
RECURSIVE PowerOf(_)
PowerOf(samples) ==
    IF samples = <<>> THEN <<>>
    ELSE IF Head(samples).hasPower
         THEN <<Head(samples).Power>> \o PowerOf(Tail(samples))
         ELSE PowerOf(Tail(samples))

\* FilterRR with the test r >= 0: the zero artefacts are kept
RECURSIVE FilterRR_KeepZero(_)
FilterRR_KeepZero(rr_data) ==
    IF rr_data = <<>> THEN <<>>
    ELSE IF Head(rr_data) >= 0
         THEN <<Head(rr_data)>> \o FilterRR_KeepZero(Tail(rr_data))
         ELSE FilterRR_KeepZero(Tail(rr_data))

\* [r for r in rr_data if r > 0]
FilterRR(rr_data) == SelectPos(rr_data)

\* InFirstHalf with <= in place of <
InFirstHalf_OrEqual(curr_ms, mid_time_ms) == ~RLt(mid_time_ms, Num(curr_ms))

\* the test of line 141 / 326 on the clock before the interval is added
InFirstHalf(curr_ms, mid_time_ms) == RLt(Num(curr_ms), mid_time_ms)

\* SplitLoop with the clock advanced before the test instead of after it
RECURSIVE SplitLoop_ClockFirst(_, _, _, _, _)
SplitLoop_ClockFirst(rr, mid_time_ms, curr_ms, h1_rr, h2_rr) ==
    IF rr = <<>> THEN <<h1_rr, h2_rr>>
    ELSE LET r == Head(rr) IN
         IF InFirstHalf(curr_ms + r, mid_time_ms)
         THEN SplitLoop_ClockFirst(Tail(rr), mid_time_ms, curr_ms + r,
                                   Append(h1_rr, r), h2_rr)
         ELSE SplitLoop_ClockFirst(Tail(rr), mid_time_ms, curr_ms + r,
                                   h1_rr, Append(h2_rr, r))

\* the loop of lines 140-145 / 325-330: <<h1_rr, h2_rr>>
RECURSIVE SplitLoop(_, _, _, _, _)
SplitLoop(rr, mid_time_ms, curr_ms, h1_rr, h2_rr) ==
    IF rr = <<>> THEN <<h1_rr, h2_rr>>
    ELSE LET r == Head(rr) IN
         IF InFirstHalf(curr_ms, mid_time_ms)
         THEN SplitLoop(Tail(rr), mid_time_ms, curr_ms + r, Append(h1_rr, r), h2_rr)
         ELSE SplitLoop(Tail(rr), mid_time_ms, curr_ms + r, h1_rr, Append(h2_rr, r))

\* 60000 / np.mean(h) if h else avg_hr
HalfHR(h, avg_hr) == IF h # <<>> THEN RDiv(Num(60000), Mean(h)) ELSE avg_hr

\* np.mean(power_samples[:mid_p]) if power_samples else 0
FirstHalfPower(power_samples, mid_p) ==
    IF power_samples # <<>> THEN Mean(SubSeq(power_samples, 1, mid_p)) ELSE Num(0)

\* np.mean(power_samples[mid_p:]) if power_samples else 0
SecondHalfPower(power_samples, mid_p) ==
    IF power_samples # <<>>
    THEN Mean(SubSeq(power_samples, mid_p + 1, Len(power_samples)))
    ELSE Num(0)

\* p / hr if hr > 0 else 0
EF(p, hr) == IF RPos(hr) THEN RDiv(p, hr) ELSE Num(0)

\* Decoupling with the difference taken the other way round
Decoupling_Swapped(ef1, ef2) ==
    IF RPos(ef1) THEN RDiv(RSub(ef2, ef1), ef1) ELSE Num(0)

\* (ef1 - ef2) / ef1 if ef1 > 0 else 0
Decoupling(ef1, ef2) == IF RPos(ef1) THEN RDiv(RSub(ef1, ef2), ef1) ELSE Num(0)

\* ResultDict with the score rounded to 2 decimals instead of 3
ResultDict_Score2(date, watt_adj, avg_hr, hrr_pct, decoupling, score, duration_sec) ==
    [Data         |-> date,
     Watt_Adj     |-> Round(watt_adj, 1),
     HR_Avg       |-> Round(avg_hr, 1),
     pctHRR       |-> Round(RMul(hrr_pct, Num(100)), 1),
     Decoupling   |-> Round(RMul(decoupling, Num(100)), 2),
     SCORE_2      |-> Round(score, 2),
     Duration_Min |-> Round(RDiv(duration_sec, Num(60)), 0)]

\* the dict of lines 174-182 / 359-367
ResultDict(date, watt_adj, avg_hr, hrr_pct, decoupling, score, duration_sec) ==
    [Data         |-> date,
     Watt_Adj     |-> Round(watt_adj, 1),
     HR_Avg       |-> Round(avg_hr, 1),
     pctHRR       |-> Round(RMul(hrr_pct, Num(100)), 1),
     Decoupling   |-> Round(RMul(decoupling, Num(100)), 2),
     SCORE_2      |-> Round(score, 3),
     Duration_Min |-> Round(RDiv(duration_sec, Num(60)), 0)]

\* Timestamp that never reads the header
Timestamp_AlwaysNow(header, now) == now

\* pd.to_datetime(header.get('DateTime', pd.Timestamp.now()))
Timestamp(header, now) == IF header.hasDateTime THEN header.DateTime ELSE now

\* what a call leaves: its return value, whether an exception reached the
\* except clause, and its locals (<<>> when it returned before the end)
Outcome(ret, raised, frame) == [ret |-> ret, raised |-> raised, frame |-> frame]

ScoreBody(data, p, now) ==
    IF ~data.hasDeviceLog \/ ~data.hasSamples THEN Outcome(None, FALSE, <<>>)
    ELSE IF ~data.hasHeader THEN Outcome(None, TRUE, <<>>)            \* KeyError
    ELSE IF data.Header.durKind = "text" THEN Outcome(None, TRUE, <<>>) \* TypeError
    ELSE
    LET header == data.Header
        date == Timestamp(header, now)
        ascent == Num(header.Ascent)
        distance == Num(header.Distance)
        duration_sec == Num(IF header.durKind = "absent" THEN 1 ELSE header.Duration)
        t_hours == RDiv(duration_sec, Num(3600))
        grade == IF RPos(distance) THEN RDiv(ascent, distance) ELSE Num(0)
        power_samples == PowerOf(data.Samples)
    IN
    IF power_samples = <<>> THEN Outcome(None, FALSE, <<>>)
    ELSE
    LET avg_power == Mean(power_samples)
        watt_adj == RMul(avg_power, RAdd(Num(1), grade))
        rr_data == FilterRR(data.RR)
    IN
    IF rr_data = <<>> THEN Outcome(None, FALSE, <<>>)
    ELSE
    LET avg_hr == RDiv(Num(60000), Mean(rr_data))
        hrr_range == p.hr_max - p.hr_rest
        hrr_pct == IF hrr_range > 0
                   THEN RDiv(RSub(avg_hr, Num(p.hr_rest)), Num(hrr_range))
                   ELSE Num(0)
        mid_time_ms == Rat(SumSeq(rr_data), 2)
        halves == SplitLoop(rr_data, mid_time_ms, 0, <<>>, <<>>)
        h1_rr == halves[1]
        h2_rr == halves[2]
        hr1 == HalfHR(h1_rr, avg_hr)
        hr2 == HalfHR(h2_rr, avg_hr)
        mid_p == Len(power_samples) \div 2
        p1 == FirstHalfPower(power_samples, mid_p)
        p2 == SecondHalfPower(power_samples, mid_p)
        ef1 == EF(p1, hr1)
        ef2 == EF(p2, hr2)
        decoupling == Decoupling(ef1, ef2)
        w_kg == RDiv(watt_adj, Num(p.weight))
        efficiency_ratio == IF RPos(hrr_pct) THEN RDiv(w_kg, hrr_pct) ELSE Num(0)
        d_penalty == IF RPos(t_hours) THEN RDiv(decoupling, RSqrt(t_hours)) ELSE Num(0)
        score == RMul(RSub(efficiency_ratio, Num(p.base_offset)),
                      RSub(Num(1), d_penalty))
        \* every division evaluated on the way, with its denominator
        divs ==
            {[op |-> "t_hours", den |-> Num(3600)],
             [op |-> "avg_hr", den |-> Mean(rr_data)],
             [op |-> "mid_time_ms", den |-> Num(2)],
             [op |-> "w_kg", den |-> Num(p.weight)],
             [op |-> "Duration_Min", den |-> Num(60)]}
            \cup (IF RPos(distance) THEN {[op |-> "grade", den |-> distance]} ELSE {})
            \cup (IF hrr_range > 0 THEN {[op |-> "hrr_pct", den |-> Num(hrr_range)]} ELSE {})
            \cup (IF h1_rr # <<>> THEN {[op |-> "hr1", den |-> Mean(h1_rr)]} ELSE {})
            \cup (IF h2_rr # <<>> THEN {[op |-> "hr2", den |-> Mean(h2_rr)]} ELSE {})
            \cup (IF RPos(hr1) THEN {[op |-> "ef1", den |-> hr1]} ELSE {})
            \cup (IF RPos(hr2) THEN {[op |-> "ef2", den |-> hr2]} ELSE {})
            \cup (IF RPos(ef1) THEN {[op |-> "decoupling", den |-> ef1]} ELSE {})
            \cup (IF RPos(hrr_pct)
                  THEN {[op |-> "efficiency_ratio", den |-> hrr_pct]} ELSE {})
            \cup (IF RPos(t_hours)
                  THEN {[op |-> "d_penalty", den |-> RSqrt(t_hours)]} ELSE {})
        \* every np.mean evaluated on the way, with the length of its argument
        means ==
            {[op |-> "avg_power", len |-> Len(power_samples)],
             [op |-> "avg_hr", len |-> Len(rr_data)],
             [op |-> "p1", len |-> mid_p],
             [op |-> "p2", len |-> Len(power_samples) - mid_p]}
            \cup (IF h1_rr # <<>> THEN {[op |-> "hr1", len |-> Len(h1_rr)]} ELSE {})
            \cup (IF h2_rr # <<>> THEN {[op |-> "hr2", len |-> Len(h2_rr)]} ELSE {})
    IN
    Outcome(<<ResultDict(date, watt_adj, avg_hr, hrr_pct, decoupling, score,
                         duration_sec)>>,
            FALSE,
            <<[power_samples |-> power_samples, rr_data |-> rr_data,
               duration_sec |-> duration_sec, t_hours |-> t_hours,
               grade |-> grade, avg_power |-> avg_power, watt_adj |-> watt_adj,
               avg_hr |-> avg_hr, hrr_pct |-> hrr_pct,
               mid_time_ms |-> mid_time_ms, h1_rr |-> h1_rr, h2_rr |-> h2_rr,
               hr1 |-> hr1, hr2 |-> hr2, p1 |-> p1, p2 |-> p2,
               ef1 |-> ef1, ef2 |-> ef2, decoupling |-> decoupling,
               w_kg |-> w_kg, efficiency_ratio |-> efficiency_ratio,
               d_penalty |-> d_penalty, score |-> score,
               divs |-> divs, means |-> means]>>)

\* a message on the page: st.error or st.warning, and the line that emits it
Report(kind, line) == [kind |-> kind, line |-> line]

\* Escapes for a body with no except clause: the exception reaches the caller
Escapes_NoHandler(raised) == raised

\* `except Exception as e:` (lines 183, 271, 368) catches whatever the try
\* block raised; nothing goes on to the caller
Escapes(raised) == FALSE

\* the messages msgs, each tagged with the input i it is about
About(msgs, i) ==
    [j \in 1..Len(msgs) |-> [kind |-> msgs[j].kind, line |-> msgs[j].line, input |-> i]]

\* try: <body> except Exception as e: st.error(...); return None
\* b is what the body did, line the line of the st.error
TryExcept(b, line) ==
    [ret |-> IF b.raised THEN None ELSE b.ret,
     frame |-> b.frame,
     escaped |-> Escapes(b.raised),
     reports |-> IF b.raised /\ ~Escapes(b.raised)
                 THEN <<Report("error", line)>> ELSE <<>>]

\* lines 276-370
process_running_file_from_data(data, p, now) ==
    TryExcept(ScoreBody(data, p, now), 369)

\* what a processing call c made on input i at time now leaves behind
Called(c, i, now) ==
    /\ returned' = Append(returned, c.ret)
    /\ frames' = Append(frames, c.frame)
    /\ calledAt' = Append(calledAt, now)

----------------------------------------------------------------------------
(* Spec: one device-log record, scored once.                               *)

Init ==
    /\ params \in ParamSet
    /\ clock = 0
    /\ \E d \in DeviceLogs : inputs = <<d>>
    /\ idx = 0
    /\ results = <<>>
    /\ returned = <<>>
    /\ frames = <<>>
    /\ calledAt = <<>>
    /\ reports = <<>>

\* a call c made on input i outside the batch loop
Alone(c, i) ==
    /\ Called(c, i, clock)
    /\ reports' = reports \o About(c.reports, i)

\* one call process_running_file_from_data(data)
ScoreData ==
    /\ idx < Len(inputs)
    /\ Alone(process_running_file_from_data(inputs[idx + 1], params, clock), idx + 1)
    /\ idx' = idx + 1
    /\ UNCHANGED <<params, clock, inputs, results>>

Next == ScoreData

Spec == Init /\ [][Next]_vars

----------------------------------------------------------------------------
(* What a device-log record holds, for the properties below.               *)

\* the record has the nested structure the body reads
WellStructured(d) ==
    d.hasDeviceLog /\ d.hasSamples /\ d.hasHeader /\ d.Header.durKind # "text"

HasPowerSample(d) == \E i \in 1..Len(d.Samples) : d.Samples[i].hasPower

HasPositiveRR(d) == \E i \in 1..Len(d.RR) : d.RR[i] > 0

----------------------------------------------------------------------------
(* process_strava_activity, lines 203-273.                                 *)

MaxStream == 3       \* longest stream of an activity

\* heart-rate samples in bpm; 0 is a dropped reading
HRVals == {0, 120, 125, 150}

WattVals == {0, 200}

\* the 'time' stream of k samples: one offset per second
TimeStream(k) == [i \in 1..k |-> i - 1]

\* the streams of an activity; a stream that is missing from the reply has
\* has* = FALSE and no data
StreamsUpTo(n) ==
    [hasWatts : {TRUE}, watts : SeqsUpTo(WattVals, n),
     hasHR : {TRUE}, heartrate : SeqsUpTo(HRVals, n),
     hasTime : {TRUE}, time : {TimeStream(k) : k \in 0..n}]

UsualStreams ==
    [hasWatts |-> TRUE, watts |-> <<200, 200>>,
     hasHR |-> TRUE, heartrate |-> <<120, 150>>,
     hasTime |-> TRUE, time |-> TimeStream(2)]

MissingStreams ==
    {[UsualStreams EXCEPT !.hasWatts = FALSE, !.watts = <<>>],
     [UsualStreams EXCEPT !.hasHR = FALSE, !.heartrate = <<>>],
     [UsualStreams EXCEPT !.hasTime = FALSE, !.time = <<>>]}

\* activity.elapsed_time: a timedelta, a stravalib Duration, a number, or
\* something float() refuses
ElapsedTimes ==
    {[kind |-> "timedelta", val |-> 3600], [kind |-> "Duration", val |-> 400],
     [kind |-> "number", val |-> 3600], [kind |-> "other", val |-> 0]}

\* activity.distance: a quantity with .num, a number, or None
Distances ==
    {[kind |-> "quantity", val |-> 1000], [kind |-> "number", val |-> 0],
     [kind |-> "none", val |-> 0]}

\* a run whose details and streams were fetched: an hour over 1000 m
UsualActivity ==
    [fetched |-> TRUE, start_date |-> 5,
     elapsed_time |-> [kind |-> "timedelta", val |-> 3600],
     distance |-> [kind |-> "quantity", val |-> 1000],
     hasElevation |-> TRUE, total_elevation_gain |-> 50,
     streams |-> UsualStreams]

\* activities: every choice of streams on the usual activity, and every
\* choice of the other attributes on the usual streams
Activities ==
    {[UsualActivity EXCEPT !.streams = st] : st \in StreamsUpTo(MaxStream) \cup MissingStreams}
    \cup
    {[UsualActivity EXCEPT !.fetched = f, !.elapsed_time = e, !.distance = d,
                           !.hasElevation = h] :
        f \in BOOLEAN, e \in ElapsedTimes, d \in Distances, h \in BOOLEAN}

\* lines 188-200
ensure_seconds(duration_obj) ==
    IF duration_obj.kind = "timedelta" THEN duration_obj.val       \* total_seconds()
    ELSE IF duration_obj.kind = "Duration" THEN duration_obj.val   \* float(.seconds)
    ELSE IF duration_obj.kind = "number" THEN duration_obj.val     \* float(duration_obj)
    ELSE 0                                                         \* TypeError, ValueError

\* min_length without the time stream
MinLength_IgnoresTime(time_stream, power_data, hr_data) ==
    IF Len(power_data) < Len(hr_data) THEN Len(power_data) ELSE Len(hr_data)

\* min(len(time_stream), len(power_data), len(hr_data))
MinLength(time_stream, power_data, hr_data) ==
    LET m == IF Len(time_stream) < Len(power_data)
             THEN Len(time_stream) ELSE Len(power_data)
    IN  IF m < Len(hr_data) THEN m ELSE Len(hr_data)

\* the sums a + b below 1000 for which the double 1000.0 / ((a + b) / 2 / 60)
\* falls just below the integer 120000 / (a + b), so that int() gives one less
RoundsBelow == {125, 250, 500}

\* RRInterval rounded to the nearest integer instead of truncated
RRInterval_Nearest(a, b) == Round(Rat(120000, a + b), 0).n

\* int(1000.0 / ((a + b) / 2 / 60)) for a + b # 0
RRInterval(a, b) ==
    IF (a + b) \in RoundsBelow
    THEN Trunc(Rat(120000, a + b)) - 1
    ELSE Trunc(Rat(120000, a + b))

\* the loop of lines 237-239
BuildSamples(power_data, min_length) ==
    [i \in 1..min_length |-> [hasPower |-> TRUE, Power |-> power_data[i]]]

\* the loop of lines 242-247, when no division faults
BuildRR(hr_data, min_length) ==
    [i \in 1..(IF min_length > 0 THEN min_length - 1 ELSE 0) |->
        RRInterval(hr_data[i], hr_data[i + 1])]

\* line 246 divides by (hr_data[i-1] + hr_data[i]) / 2 / 60: ZeroDivisionError
RRFaults(hr_data, min_length) ==
    \E i \in 1..(min_length - 1) : hr_data[i] + hr_data[i + 1] = 0

\* the three has_* tests of lines 212-216
HasAllStreams(streams) ==
    /\ streams.hasWatts /\ streams.watts # <<>>
    /\ streams.hasHR /\ streams.heartrate # <<>>
    /\ streams.hasTime /\ streams.time # <<>>

\* an exception in the try block: lines 271-273
StravaRaised ==
    [ret |-> None, frame |-> <<>>, escaped |-> Escapes(TRUE),
     reports |-> IF Escapes(TRUE) THEN <<>> ELSE <<Report("error", 272)>>]

\* st.warning and return None: lines 217-218 and 251-252
StravaWarned(frame, line) ==
    [ret |-> None, frame |-> frame, escaped |-> FALSE,
     reports |-> <<Report("warning", line)>>]

\* the dict of lines 255-266
StravaData(activity, samples, rr_data) ==
    [hasDeviceLog |-> TRUE, hasSamples |-> TRUE, hasHeader |-> TRUE,
     Header |-> [hasDateTime |-> TRUE, DateTime |-> activity.start_date,
                 Ascent |-> IF activity.hasElevation
                            THEN activity.total_elevation_gain ELSE 0,
                 Distance |-> activity.distance.val,
                 durKind |-> "number",
                 Duration |-> ensure_seconds(activity.elapsed_time)],
     Samples |-> samples, RR |-> rr_data]

\* line 269: the value of process_running_file_from_data(data) is returned
StravaScored(c, frame) ==
    [ret |-> c.ret, frame |-> frame, escaped |-> c.escaped, reports |-> c.reports]

\* lines 249-269, with the lists the two loops built
StravaBuilt(activity, min_length, samples, rr_data, p, now) ==
    IF samples = <<>> \/ rr_data = <<>>
    THEN StravaWarned(<<[min_length |-> min_length, samples |-> samples,
                         rr_data |-> rr_data]>>, 251)
    ELSE StravaScored(
             process_running_file_from_data(StravaData(activity, samples, rr_data), p, now),
             <<[min_length |-> min_length, samples |-> samples, rr_data |-> rr_data]>>)

\* lines 235-247, with min_length
StravaLoops(activity, min_length, p, now) ==
    IF RRFaults(activity.streams.heartrate, min_length) THEN StravaRaised
    ELSE StravaBuilt(activity, min_length,
                     BuildSamples(activity.streams.watts, min_length),
                     BuildRR(activity.streams.heartrate, min_length), p, now)

process_strava_activity(activity, p, now) ==
    IF ~activity.fetched THEN StravaRaised           \* client.get_activity raises
    ELSE IF ~HasAllStreams(activity.streams) THEN StravaWarned(<<>>, 217)
    ELSE IF activity.distance.kind = "none" THEN StravaRaised   \* float(None)
    ELSE StravaLoops(activity,
                     MinLength(activity.streams.time, activity.streams.watts,
                               activity.streams.heartrate),
                     p, now)

----------------------------------------------------------------------------
(* SpecStrava: one activity, normalised and scored once.                   *)

InitStrava ==
    /\ params = UsualParams
    /\ clock = 0
    /\ \E a \in Activities : inputs = <<a>>
    /\ idx = 0
    /\ results = <<>>
    /\ returned = <<>>
    /\ frames = <<>>
    /\ calledAt = <<>>
    /\ reports = <<>>

\* one call process_strava_activity(activity, client)
ScoreActivity ==
    /\ idx < Len(inputs)
    /\ Alone(process_strava_activity(inputs[idx + 1], params, clock), idx + 1)
    /\ idx' = idx + 1
    /\ UNCHANGED <<params, clock, inputs, results>>

NextStrava == ScoreActivity

SpecStrava == InitStrava /\ [][NextStrava]_vars

\* the three streams of input k are all present and non-empty
HasStreams(a) ==
    /\ a.streams.hasWatts /\ a.streams.watts # <<>>
    /\ a.streams.hasHR /\ a.streams.heartrate # <<>>
    /\ a.streams.hasTime /\ a.streams.time # <<>>

\* the common prefix length of the streams of a
Common(a) ==
    CHOOSE n \in 0..Len(a.streams.watts) :
        /\ n <= Len(a.streams.time) /\ n <= Len(a.streams.heartrate)
        /\ n \in {Len(a.streams.time), Len(a.streams.watts), Len(a.streams.heartrate)}

\* an error that does not come from the lengths: the fetch failed, the
\* distance is None, or two adjacent heart-rate samples of the prefix are 0
OtherFault(a) ==
    \/ ~a.fetched
    \/ a.distance.kind = "none"
    \/ \E i \in 1..(Common(a) - 1) :
           a.streams.heartrate[i] = 0 /\ a.streams.heartrate[i + 1] = 0

\* C3: for streams of lengths a, b, c >= 1 and n = min(a, b, c), the
\* normaliser produces exactly n power samples, the first n watts values in
\* order, and exactly n - 1 beat intervals, each derived from two adjacent
\* heart-rate values of the first n; nothing at index >= n has any
\* influence, and unequal lengths raise no error.
C3_CommonPrefix ==
    \A k \in 1..Len(returned) :
        LET a == inputs[k]
            n == Common(a)
            errs == {j \in 1..Len(reports) : reports[j].input = k /\ reports[j].kind = "error"}
        IN  HasStreams(a) =>
            /\ errs # {} => OtherFault(a)
            /\ ~OtherFault(a) =>
                 /\ frames[k] # <<>>
                 /\ Len(frames[k][1].samples) = n
                 /\ \A i \in 1..n :
                        frames[k][1].samples[i] = [hasPower |-> TRUE, Power |-> a.streams.watts[i]]
                 /\ Len(frames[k][1].rr_data) = n - 1
                 /\ \A i \in 1..(n - 1) :
                        frames[k][1].rr_data[i] =
                            RRInterval(a.streams.heartrate[i], a.streams.heartrate[i + 1])

\* streams of lengths 3, 2, 3: two samples and one interval were built, the
\* third heart-rate value was left out, and the session was scored
C3_Witness ==
    /\ Len(returned) = 1
    /\ Len(inputs[1].streams.time) = 3
    /\ Len(inputs[1].streams.watts) = 2
    /\ Len(inputs[1].streams.heartrate) = 3
    /\ reports = <<>>
    /\ Len(frames[1][1].samples) = 2
    /\ Len(frames[1][1].rr_data) = 1
    /\ returned[1] # None

\* the calls that built their samples and beat intervals
Normalised == {k \in 1..Len(frames) : frames[k] # <<>>}

\* 60000 / avg(bpm1, bpm2)
ExactInterval(bpm1, bpm2) == Rat(120000, bpm1 + bpm2)

\* C9 as stated: each synthetic beat interval is exactly
\* 60000 / ((bpm[i-1] + bpm[i]) / 2), with no other transformation.
C9_ExactQuotient ==
    \A k \in Normalised :
        \A i \in 1..Len(frames[k][1].rr_data) :
            Num(frames[k][1].rr_data[i]) =
                ExactInterval(inputs[k].streams.heartrate[i],
                              inputs[k].streams.heartrate[i + 1])

\* C9 amended: each synthetic beat interval is that quotient cut to an
\* integer by int(): never above the quotient, less than 1 below it when the
\* quotient is no integer, and at most 1 below it when it is one (the double
\* quotient can fall just under it).
C9_TruncatedQuotient ==
    \A k \in Normalised :
        \A i \in 1..Len(frames[k][1].rr_data) :
            LET q == ExactInterval(inputs[k].streams.heartrate[i],
                                   inputs[k].streams.heartrate[i + 1])
                gap == RSub(q, Num(frames[k][1].rr_data[i]))
            IN  /\ ~RLt(gap, Num(0))
                /\ ~RLt(Num(1), gap)
                /\ gap = Num(1) => q.d = 1

\* an interval derived from 120 and 150 bpm: 60000 / 135 = 444.4 became 444
C9_Witness ==
    \E k \in Normalised :
        \E i \in 1..Len(frames[k][1].rr_data) :
            /\ inputs[k].streams.heartrate[i] = 120
            /\ inputs[k].streams.heartrate[i + 1] = 150
            /\ frames[k][1].rr_data[i] = 444

----------------------------------------------------------------------------
(* process_running_file and the batch loop, lines 89-185 and 410-434.      *)

MaxBatch == 2        \* most inputs of one batch

\* lines 89-185: json.load, then the scoring body, all in try/except; an
\* exception is reported by st.error (line 184) and None is returned
process_running_file(file, p, now) ==
    TryExcept(IF file.parseable THEN ScoreBody(file.data, p, now)
              ELSE Outcome(None, TRUE, <<>>),            \* json.load raises
              184)

\* Collect that puts the new result first
Collect_Prepend(res, rs) == IF res # None THEN <<res[1]>> \o rs ELSE rs

\* if res: results.append(res)
Collect(res, rs) == IF res # None THEN Append(rs, res[1]) ELSE rs

\* else: st.warning("Saltato ...: Dati insufficienti") at the given line
Skipped(res, line) == IF res # None THEN <<>> ELSE <<Report("warning", line)>>

GoodLog(samples, rr) ==
    [hasDeviceLog |-> TRUE, hasSamples |-> TRUE, hasHeader |-> TRUE,
     Header |-> UsualHeader, Samples |-> samples, RR |-> rr]

\* uploaded files: one that is no JSON, the records without the nested
\* structure, one without power, one whose beat intervals are all 0, and
\* two that score
Files ==
    {[parseable |-> FALSE, data |-> GoodLog(<<>>, <<>>)]}
    \cup {[parseable |-> TRUE, data |-> d] : d \in BrokenLogs}
    \cup {[parseable |-> TRUE, data |-> GoodLog(s, r)] :
            s \in {<<[hasPower |-> FALSE, Power |-> 0]>>,
                   <<[hasPower |-> TRUE, Power |-> 200], [hasPower |-> TRUE, Power |-> 200]>>},
            r \in {<<0>>, <<400, 600>>}}
    \cup {[parseable |-> TRUE,
           data |-> GoodLog(<<[hasPower |-> TRUE, Power |-> 0],
                              [hasPower |-> TRUE, Power |-> 200]>>, <<600, 400>>)]}

\* fetched runs: two that score, one whose fetch fails, one with no
\* distance, one without a heart-rate stream, one with a single sample
Runs ==
    {UsualActivity,
     [UsualActivity EXCEPT !.streams.watts = <<0, 200>>],
     [UsualActivity EXCEPT !.fetched = FALSE],
     [UsualActivity EXCEPT !.distance = [kind |-> "none", val |-> 0]],
     [UsualActivity EXCEPT !.streams.hasHR = FALSE, !.streams.heartrate = <<>>],
     [UsualActivity EXCEPT !.streams.time = TimeStream(1)]}

IsFile(x) == "parseable" \in DOMAIN x

\* the radio button picks one source: uploaded files or Strava activities
InitBatch ==
    /\ params = UsualParams
    /\ clock = 0
    /\ inputs \in SeqsUpTo(Files, MaxBatch) \cup SeqsUpTo(Runs, MaxBatch)
    /\ idx = 0
    /\ results = <<>>
    /\ returned = <<>>
    /\ frames = <<>>
    /\ calledAt = <<>>
    /\ reports = <<>>

\* an exception reached the script: the run is over
Aborted == \E j \in 1..Len(reports) : reports[j].kind = "abort"

\* res = <call c on input i>, made at line call; then the if/else on res,
\* whose warning is at line warn
InLoop(c, i, call, warn) ==
    /\ Called(c, i, clock)
    /\ results' = IF c.escaped THEN results ELSE Collect(c.ret, results)
    /\ reports' = reports \o About(IF c.escaped THEN <<Report("abort", call)>>
                                   ELSE c.reports \o Skipped(c.ret, warn), i)

\* one iteration of the loop of lines 415-420
BatchFile ==
    /\ ~Aborted
    /\ idx < Len(inputs)
    /\ IsFile(inputs[idx + 1])
    /\ InLoop(process_running_file(inputs[idx + 1], params, clock), idx + 1, 416, 420)
    /\ idx' = idx + 1
    /\ UNCHANGED <<params, clock, inputs>>

\* one iteration of the loop of lines 427-432
BatchActivity ==
    /\ ~Aborted
    /\ idx < Len(inputs)
    /\ ~IsFile(inputs[idx + 1])
    /\ InLoop(process_strava_activity(inputs[idx + 1], params, clock), idx + 1, 428, 432)
    /\ idx' = idx + 1
    /\ UNCHANGED <<params, clock, inputs>>

NextBatch == BatchFile \/ BatchActivity

SpecBatch == InitBatch /\ [][NextBatch]_vars

\* what input x carries
LogOf(x) == x.data

\* input x is malformed: a payload that does not parse, a fetch that fails,
\* a value that cannot be coerced or divided
Malformed(x) ==
    IF IsFile(x)
    THEN ~x.parseable \/ (LogOf(x).hasDeviceLog /\ LogOf(x).hasSamples
                          /\ LogOf(x).hasHeader /\ LogOf(x).Header.durKind = "text")
    ELSE \/ ~x.fetched
         \/ HasStreams(x) /\ x.distance.kind = "none"
         \/ HasStreams(x) /\ \E i \in 1..(Common(x) - 1) :
                x.streams.heartrate[i] + x.streams.heartrate[i + 1] = 0

\* input x has insufficient data: the nested structure, the power samples or
\* the positive beat intervals are missing
Insufficient(x) ==
    IF IsFile(x)
    THEN /\ x.parseable
         /\ \/ ~LogOf(x).hasDeviceLog \/ ~LogOf(x).hasSamples \/ ~LogOf(x).hasHeader
            \/ /\ LogOf(x).Header.durKind # "text"
               /\ ~HasPowerSample(LogOf(x)) \/ ~HasPositiveRR(LogOf(x))
    ELSE /\ ~Malformed(x)
         /\ ~HasStreams(x) \/ Common(x) < 2

\* the entries of returned that are results, in order
RECURSIVE Successes(_)
Successes(rs) ==
    IF rs = <<>> THEN <<>>
    ELSE (IF Head(rs) # None THEN <<Head(rs)[1]>> ELSE <<>>) \o Successes(Tail(rs))

\* C4: a malformed input or one with insufficient data is skipped and never
\* aborts the batch: no exception reaches the loop, every input taken was
\* processed exactly once, and the result collection holds exactly the
\* results of the inputs that scored, in input order.
C4_BatchNeverAborts ==
    /\ ~Aborted
    /\ Len(returned) = idx
    /\ \A k \in 1..idx :
           returned[k] = None <=> Malformed(inputs[k]) \/ Insufficient(inputs[k])
    /\ results = Successes(returned)

\* a finished batch of two: the first input was skipped, the second scored
C4_Witness ==
    /\ idx = 2 /\ Len(inputs) = 2
    /\ Malformed(inputs[1])
    /\ returned[1] = None
    /\ returned[2] # None
    /\ results = <<returned[2][1]>>

\* the messages of kind c about input k
ReportsOf(k, c) == {j \in 1..Len(reports) : reports[j].input = k /\ reports[j].kind = c}

\* C8: an input with insufficient data gets the no-result signal and no
\* error report; a malformed input gets an error report and no
\* "insufficient data" report; no input is reported under both.
C8_ClassesKeptSeparate ==
    \A k \in 1..idx :
        /\ Insufficient(inputs[k]) => returned[k] = None /\ ReportsOf(k, "error") = {}
        /\ Malformed(inputs[k]) => ReportsOf(k, "error") # {} /\ ReportsOf(k, "warning") = {}
        /\ ReportsOf(k, "error") = {} \/ ReportsOf(k, "warning") = {}

----------------------------------------------------------------------------
(* SpecRepeat: one device-log record scored again and again while the      *)
(* wall clock advances.                                                    *)

MaxCalls == 2        \* calls made on the record
MaxClock == 2        \* ticks of the wall clock

\* short records, with and without a 'DateTime'
RepeatLogs ==
    [hasDeviceLog : {TRUE}, hasSamples : {TRUE}, hasHeader : {TRUE},
     Header : HeadersWith(BOOLEAN),
     Samples : SeqsUpTo(SampleVals, 1),
     RR : SeqsUpTo(RRVals, 1)]
    \cup BrokenLogs

InitRepeat ==
    /\ params = UsualParams
    /\ clock = 0
    /\ \E d \in RepeatLogs : inputs = <<d>>
    /\ idx = 0
    /\ results = <<>>
    /\ returned = <<>>
    /\ frames = <<>>
    /\ calledAt = <<>>
    /\ reports = <<>>

\* time passes between two calls
Tick ==
    /\ clock < MaxClock
    /\ clock' = clock + 1
    /\ UNCHANGED <<params, inputs, idx, results, returned, frames, calledAt, reports>>

\* one more call process_running_file_from_data(data) on the same record
ScoreAgain ==
    /\ Len(returned) < MaxCalls
    /\ Alone(process_running_file_from_data(inputs[1], params, clock), 1)
    /\ UNCHANGED <<params, clock, inputs, idx, results>>

NextRepeat == Tick \/ ScoreAgain

SpecRepeat == InitRepeat /\ [][NextRepeat]_vars

\* the result r with its timestamp blanked
WithoutData(r) == IF r = None THEN None ELSE <<[r[1] EXCEPT !.Data = 0]>>

----------------------------------------------------------------------------
(* Properties of the scoring body, checked under Spec.                     *)

\* C1: a call returns a result only for a record with at least one power
\* sample and at least one strictly positive beat interval; a record with no
\* power sample, or whose beat intervals are all <= 0 (even when the raw
\* list is not empty), gets None.
C1_EmptyInputGuard ==
    \A k \in 1..Len(returned) :
        /\ returned[k] # None => HasPowerSample(inputs[k]) /\ HasPositiveRR(inputs[k])
        /\ ~HasPowerSample(inputs[k]) \/ ~HasPositiveRR(inputs[k]) => returned[k] = None

\* a record with power and a raw beat list that is non-empty but holds no
\* positive value was scored and got None
C1_Witness ==
    /\ Len(returned) = 1
    /\ WellStructured(inputs[1])
    /\ HasPowerSample(inputs[1])
    /\ inputs[1].RR # <<>>
    /\ ~HasPositiveRR(inputs[1])
    /\ returned[1] = None

\* C2: in every call that passes the validity check, each division evaluated
\* has a strictly positive denominator and no mean of an empty list is taken.
C2_EveryDivisionGuarded ==
    \A k \in 1..Len(frames) :
        frames[k] # <<>> =>
            /\ \A v \in frames[k][1].divs : RPos(v.den)
            /\ \A m \in frames[k][1].means : m.len > 0

\* the calls that ran to the end of the body
Scored == {k \in 1..Len(frames) : frames[k] # <<>>}

Locals(k) == frames[k][1]

\* the efficiency factor of a half as the quotient power / heart rate
HalfEF(p, hr) == RDiv(p, hr)

\* C6 as stated: a second-half efficiency factor below the first half's
\* gives decoupling > 0, one above it gives decoupling < 0, for every valid
\* session.
C6_SignForEverySession ==
    \A k \in Scored :
        LET f == Locals(k)
            e1 == HalfEF(f.p1, f.hr1)
            e2 == HalfEF(f.p2, f.hr2)
        IN  /\ RLt(e2, e1) => RPos(f.decoupling)
            /\ RLt(e1, e2) => RLt(f.decoupling, Num(0))

\* C6 amended: the same, for the sessions whose first-half efficiency
\* factor is strictly positive; otherwise decoupling is 0.
C6_SignWhenFirstHalfPositive ==
    \A k \in Scored :
        LET f == Locals(k)
            e1 == HalfEF(f.p1, f.hr1)
            e2 == HalfEF(f.p2, f.hr2)
        IN  /\ RPos(e1) /\ RLt(e2, e1) => RPos(f.decoupling)
            /\ RPos(e1) /\ RLt(e1, e2) => RLt(f.decoupling, Num(0))
            /\ ~RPos(e1) => f.decoupling = Num(0)

\* a scored session whose second half is the more efficient one, with a
\* negative decoupling
C6_Witness ==
    \E k \in Scored :
        LET f == Locals(k) IN
        /\ RPos(HalfEF(f.p1, f.hr1))
        /\ RLt(HalfEF(f.p1, f.hr1), HalfEF(f.p2, f.hr2))
        /\ RLt(f.decoupling, Num(0))

\* v is x rounded to k decimals: an integer number of 10^-k, at most half
\* a unit from x, the even one of the two when x lies half-way; a
\* non-finite x is kept
IsRounded(v, x, k) ==
    IF ~IsFinite(x) THEN v = x
    ELSE /\ IsFinite(v)
         /\ Pow10(k) % v.d = 0
         /\ LET u == RMul(v, Num(Pow10(k)))
                e == RSub(RMul(x, Num(Pow10(k))), u)
            IN  /\ ~RLt(Rat(1, 2), e)
                /\ ~RLt(e, Rat(-1, 2))
                /\ (e = Rat(1, 2) \/ e = Rat(-1, 2)) => u.n % 2 = 0

\* C7 as stated: watt_adjusted, hr_avg_bpm, hrr_pct and duration_min are the
\* computed values rounded to 1 decimal, decoupling_pct to 2, score to 3;
\* duration_min is duration_s / 60 and hrr_pct the value of the
\* heart-rate-reserve step.
C7_StatedPrecision ==
    \A k \in Scored :
        LET f == Locals(k)
            r == returned[k][1]
        IN  /\ IsRounded(r.Watt_Adj, f.watt_adj, 1)
            /\ IsRounded(r.HR_Avg, f.avg_hr, 1)
            /\ IsRounded(r.pctHRR, f.hrr_pct, 1)
            /\ IsRounded(r.Decoupling, RMul(f.decoupling, Num(100)), 2)
            /\ IsRounded(r.SCORE_2, f.score, 3)
            /\ IsRounded(r.Duration_Min, RDiv(f.duration_sec, Num(60)), 1)

\* C7 amended: Watt_Adj and HR_Avg are the computed values rounded to 1
\* decimal, %HRR is 100 * hrr_pct rounded to 1 decimal, Decoupling is
\* 100 * decoupling rounded to 2 decimals, SCORE_2 is the score rounded to 3
\* decimals, and Duration_Min is duration_s / 60 rounded to 0 decimals.
C7_CodePrecision ==
    \A k \in Scored :
        LET f == Locals(k)
            r == returned[k][1]
        IN  /\ IsRounded(r.Watt_Adj, f.watt_adj, 1)
            /\ IsRounded(r.HR_Avg, f.avg_hr, 1)
            /\ IsRounded(r.pctHRR, RMul(f.hrr_pct, Num(100)), 1)
            /\ IsRounded(r.Decoupling, RMul(f.decoupling, Num(100)), 2)
            /\ IsRounded(r.SCORE_2, f.score, 3)
            /\ IsRounded(r.Duration_Min, RDiv(f.duration_sec, Num(60)), 0)

\* a scored session of 400 s (6.67 min) whose score has more than 3 decimals
C7_Witness ==
    \E k \in Scored :
        /\ Locals(k).duration_sec = Num(400)
        /\ returned[k][1].Duration_Min = Num(7)
        /\ IsFinite(Locals(k).score)
        /\ 1000 % Locals(k).score.d # 0

\* the entries of s at the indices in I, in order
RECURSIVE PickFrom(_, _, _)
PickFrom(s, I, i) ==
    IF i > Len(s) THEN <<>>
    ELSE (IF i \in I THEN <<s[i]>> ELSE <<>>) \o PickFrom(s, I, i + 1)

\* the sum of the first i entries of s
SumTo(s, i) == SumSeq(SubSeq(s, 1, i))

\* C10: the positive beat intervals are visited in order with a clock that
\* starts at 0; an interval goes to the first half exactly when the clock
\* before it is strictly below mid_time_ms = sum / 2, else to the second
\* half; each half's HR is 60000 / mean of its intervals, and avg_hr for a
\* half with no intervals.
C10_HalfSplit ==
    \A k \in Scored :
        LET f == Locals(k)
            raw == inputs[k].RR
            rr == PickFrom(raw, {i \in 1..Len(raw) : raw[i] > 0}, 1)
            first == {i \in 1..Len(rr) : 2 * SumTo(rr, i - 1) < SumSeq(rr)}
            h1 == PickFrom(rr, first, 1)
            h2 == PickFrom(rr, (1..Len(rr)) \ first, 1)
        IN  /\ f.rr_data = rr
            /\ f.mid_time_ms = Rat(SumSeq(rr), 2)
            /\ f.h1_rr = h1
            /\ f.h2_rr = h2
            /\ f.hr1 = (IF h1 = <<>> THEN f.avg_hr ELSE Rat(60000 * Len(h1), SumSeq(h1)))
            /\ f.hr2 = (IF h2 = <<>> THEN f.avg_hr ELSE Rat(60000 * Len(h2), SumSeq(h2)))

\* a scored session with an interval that starts exactly at mid_time_ms and
\* went to the second half
C10_Witness ==
    \E k \in Scored :
        LET f == Locals(k) IN
        /\ f.h1_rr # <<>>
        /\ f.h2_rr # <<>>
        /\ 2 * SumSeq(f.h1_rr) = SumSeq(f.rr_data)

=============================================================================
